---------------------------- MODULE Spec2Model ----------------------------
(***************************************************************************)
(* A model of src/parameter_optimization/strotss_org.py: the entry points, *)
(* the multi-scale scheduler (strotss), the per-scale optimizer (optimize),*)
(* the Laplacian pyramid codec, the spatial sampler (sample_indices) and   *)
(* the feature gatherer (spatial_feature_extract).                         *)
(*                                                                         *)
(* Tensors are modelled by what the control flow and the index arithmetic  *)
(* read of them: their spatial shape and, for the working image, the terms *)
(* it was built from and the number of optimizer updates it reflects.      *)
(* Pixel and feature values are not modelled.                              *)
(***************************************************************************)
EXTENDS Integers, Sequences, FiniteSets, TLC

VARIABLES
    pc,            \* position of the single thread of control
    entry,         \* the entry point of the run
    resize_to,     \* the requested long-edge resize target
    content_pil,   \* [width, height] of the content image handed on
    scales,        \* strotss: the scale plan (list of divisors)
    si,            \* strotss: 1-based position of `for scale in scales`
    lr,            \* strotss: learning rate, in units of 1e-3
    result,        \* strotss: the working image, or Unbound
    it,            \* optimize: loop index of `for it in range(opt_iter)`
    result_pyramid,\* optimize: the shapes of the optimized bands
    steps,         \* optimize: optimizer.step() calls applied to result_pyramid
    stylized,      \* optimize: the last fold: its shape, the steps it reflects
    count,         \* observers: what the run has done so far
    ppc,           \* pyramid codec: position
    image,         \* pyramid codec: the shape of the image decomposed
    lap_levels,    \* pyramid codec: the level count asked for
    lap_pyramid,   \* pyramid codec: what make_laplace_pyramid returned
    folded,        \* pyramid codec: what fold_laplace_pyramid returned
    spc,           \* sampler and gatherer: position
    feat,          \* the shapes of the extractor's layers; feat[1] is the grid
    draw,          \* sample_indices: the strides and the offsets drawn
    xx,            \* the Sample Set: row coordinates
    xy,            \* the Sample Set: column coordinates
    sit,           \* optimize: loop index, in the sampler's view
    gathered       \* what spatial_feature_extract returned last

runVars == <<pc, entry, resize_to, content_pil, scales, si, lr, result,
             it, result_pyramid, steps, stylized, count>>

pyrVars == <<ppc, image, lap_levels, lap_pyramid, folded>>

sampleVars == <<spc, feat, draw, xx, xy, sit, gathered>>

vars == <<runVars, pyrVars, sampleVars>>

----------------------------------------------------------------------------
(* Bounds of the model *)

\* Largest side, in pixels, of the image files handed to an entry point.
MaxSide == 4

(* Program constants *)

opt_iter == 200
MinShort == 33
PyramidLevels == 5
MaxScales == 10
MinResize == 2 ^ 8

\* resize targets tried: around the minimum, and around the sizes at which
\* the scale plan gains a scale for the aspect ratios of 1..MaxSide
ResizeTargets == {MinShort - 1, MinShort, 2 * MinShort, 4 * MinShort,
                  MinResize - 56, MinResize - 1, MinResize, 8 * MinShort}

StyleDraws == 5

\* the working image: its shape, the terms it was initialised from, and the
\* number of optimizer updates (of the optimize call that returned it, or
\* that returned the image it was upsampled from) that it reflects
Image(shape, terms, reflects) ==
    [bound |-> TRUE, h |-> shape.h, w |-> shape.w, terms |-> terms,
     reflects |-> reflects]

\* `result` before its first assignment
Unbound == [bound |-> FALSE, h |-> 0, w |-> 0, terms |-> {}, reflects |-> 0]

Min(a, b) == IF a < b THEN a ELSE b
Max(a, b) == IF a > b THEN a ELSE b

----------------------------------------------------------------------------
(* Image utilities *)

\* pil_resize_long_edge_to: int(side * (trg_size / long side)), in exact
\* arithmetic.
pil_resize_long_edge_to(pil, trg_size) ==
    LET short_w == pil.width < pil.height
        long == IF short_w THEN pil.height ELSE pil.width
    IN  [width  |-> (pil.width * trg_size) \div long,
         height |-> (pil.height * trg_size) \div long]

----------------------------------------------------------------------------
(* strotss: the scale plan *)

RECURSIVE ScalePlanFrom(_, _)
\* the loop `for scale in range(10)` from index `scale` on; insert(0, .)
\* puts each later divisor in front of the earlier ones
ScalePlanFrom(S, scale) ==
    IF scale >= MaxScales THEN <<>>
    ELSE LET divisor == 2 ^ scale
             rest == ScalePlanFrom(S, scale + 1)
         IN  IF S \div divisor >= MinShort THEN rest \o <<divisor>> ELSE rest

ScalePlan(pil) == ScalePlanFrom(Min(pil.width, pil.height), 0)

----------------------------------------------------------------------------
(* Tensors, by shape.  A failed tensor stands for the exception that       *)
(* F.interpolate raises when asked for an output with a side of 0 pixels;  *)
(* a function that raises returns nothing, which an empty pyramid (a real  *)
(* one holds at least the residual) stands for.                            *)

Shape(h, w) == [failed |-> FALSE, h |-> h, w |-> w]

Failed == [failed |-> TRUE, h |-> 0, w |-> 0]

Raised == <<>>

\* tensor_resample(tensor, dst_size): F.interpolate to dst_size
tensor_resample(x, dst) ==
    IF x.failed \/ dst.h < 1 \/ dst.w < 1 THEN Failed ELSE Shape(dst.h, dst.w)

\* the inner target of laplacian: [h // 2, w // 2], with no lower limit
LaplacianDown(x) == Shape(x.h \div 2, x.w \div 2)

\* laplacian(x) = x - upsample(downsample(x))
laplacian(x) ==
    IF x.failed THEN Failed
    ELSE IF tensor_resample(tensor_resample(x, LaplacianDown(x)), x).failed
         THEN Failed
         ELSE x

RECURSIVE HalvedSide(_, _)
\* a side of `current` after i rounds of the loop of make_laplace_pyramid:
\* each round takes max(side // 2, 1)
HalvedSide(side, i) ==
    IF i = 0 THEN side ELSE Max(HalvedSide(side, i - 1) \div 2, 1)

\* `current` of make_laplace_pyramid after i rounds of its loop
Current(x, i) == Shape(HalvedSide(x.h, i), HalvedSide(x.w, i))

\* make_laplace_pyramid: band i is laplacian(current) of round i, the last
\* entry is the residual; a laplacian that raises ends the call
make_laplace_pyramid(x, levels) ==
    IF \E i \in 0..(levels - 1) : laplacian(Current(x, i)).failed
    THEN Raised
    ELSE [i \in 1..(levels + 1) |->
            IF i <= levels THEN laplacian(Current(x, i - 1)) ELSE Current(x, levels)]

RECURSIVE FoldFrom(_, _, _)
\* the loop of fold_laplace_pyramid at index i (1-based), running down to 1
FoldFrom(pyramid, current, i) ==
    IF i = 0 THEN current
    ELSE FoldFrom(pyramid, tensor_resample(current, pyramid[i]), i - 1)

fold_laplace_pyramid(pyramid) ==
    FoldFrom(pyramid, pyramid[Len(pyramid)], Len(pyramid) - 1)

----------------------------------------------------------------------------
(* The run: entry points, strotss, optimize *)

NoCount == [optimize_calls |-> 0, folds |-> 0, extracts |-> 0, losses |-> 0,
            updates |-> 0]

RunInit ==
    /\ pc = "start"
    /\ entry \in {"main", "execute_style_transfer"}
    /\ resize_to \in ResizeTargets
    /\ content_pil \in [width : 1..MaxSide, height : 1..MaxSide]
    /\ scales = <<>>
    /\ si = 0
    /\ lr = 0
    /\ result = Unbound
    /\ it = 0
    /\ result_pyramid = <<>>
    /\ steps = 0
    /\ stylized = [h |-> 0, w |-> 0, reflects |-> 0]
    /\ count = NoCount

\* __main__, lines 481-483: the minimum of the resize target
TooLow(trg) == trg < MinResize

\* __main__ up to the call of strotss: exit(1) below the minimum, else the
\* resize of the content image
Main ==
    /\ pc = "start"
    /\ entry = "main"
    /\ IF TooLow(resize_to)
       THEN /\ pc' = "exit"
            /\ UNCHANGED content_pil
       ELSE /\ pc' = "strotss"
            /\ content_pil' = pil_resize_long_edge_to(content_pil, resize_to)
    /\ UNCHANGED <<entry, resize_to, scales, si, lr, result, it,
                   result_pyramid, steps, stylized, count>>
    /\ UNCHANGED <<pyrVars, sampleVars>>

\* execute_style_transfer up to the call of strotss
ExecuteStyleTransfer ==
    /\ pc = "start"
    /\ entry = "execute_style_transfer"
    /\ pc' = "strotss"
    /\ content_pil' = pil_resize_long_edge_to(content_pil, resize_to)
    /\ UNCHANGED <<entry, resize_to, scales, si, lr, result, it,
                   result_pyramid, steps, stylized, count>>
    /\ UNCHANGED <<pyrVars, sampleVars>>

\* strotss, lines 412-425: lr, the extractor, the scale plan
StrotssPlan ==
    /\ pc = "strotss"
    /\ lr' = 2
    /\ scales' = ScalePlan(content_pil)
    /\ si' = 1
    /\ pc' = "scale"
    /\ UNCHANGED <<entry, resize_to, content_pil, result, it, result_pyramid,
                   steps, stylized, count>>
    /\ UNCHANGED <<pyrVars, sampleVars>>

content_full == Shape(content_pil.height, content_pil.width)

\* InitBranch with the test for the last scale left out
InitBranchNoLast(scale, plan) ==
    IF scale = plan[1] THEN "first"
    ELSE "middle"

\* the branch of lines 434-442 taken for `scale` of plan `plan`
InitBranch(scale, plan) ==
    IF scale = plan[1] THEN "first"
    ELSE IF scale = plan[Len(plan)] THEN "last"
    ELSE "middle"

\* lines 434-442: the working image a scale starts from
InitResult(branch, prev, content) ==
    IF content.failed THEN Unbound
    ELSE IF branch = "first"
    THEN IF laplacian(content).failed THEN Unbound
         ELSE Image(content, {"laplacian_content", "style_mean"}, 0)
    ELSE IF ~prev.bound \/ tensor_resample(Shape(prev.h, prev.w), content).failed
    THEN Unbound
    ELSE IF branch = "last"
    THEN Image(content, {"upsampled_result"}, prev.reflects)
    ELSE IF laplacian(content).failed THEN Unbound
    ELSE Image(content, {"upsampled_result", "laplacian_content"}, prev.reflects)

\* line 440
InitLr(branch, old) == IF branch = "last" THEN 1 ELSE old

\* line 429: the content at the current scale
ScaleContent ==
    tensor_resample(content_full,
        Shape(content_full.h \div scales[si], content_full.w \div scales[si]))

\* lines 434-442 for the current scale
ScaleStart == InitResult(InitBranch(scales[si], scales), result, ScaleContent)

\* line 367: the pyramid of the working image `start`
StartPyramid(start) ==
    IF start.bound
    THEN make_laplace_pyramid(Shape(start.h, start.w), PyramidLevels)
    ELSE Raised

\* a fold of `pyramid` that reflects `n` optimizer steps
Folded(pyramid, n) ==
    [h |-> fold_laplace_pyramid(pyramid).h,
     w |-> fold_laplace_pyramid(pyramid).w,
     reflects |-> n]

\* one round of `for scale in scales` up to the loop of optimize: lines
\* 429-442 of strotss, then lines 367-392 of optimize (the pyramid, the
\* content features, the fold of line 380, the five style draws); a
\* resample that raises ends the run
BeginScale ==
    /\ pc = "scale"
    /\ si <= Len(scales)
    /\ \E start \in {ScaleStart} : \E pyramid \in {StartPyramid(start)} :
        \E raises \in {pyramid = Raised} :
          /\ pc' = IF raises THEN "error" ELSE "iterating"
          /\ lr' = IF raises THEN lr ELSE InitLr(InitBranch(scales[si], scales), lr)
          /\ result' = IF raises THEN result ELSE start
          /\ result_pyramid' = IF raises THEN result_pyramid ELSE pyramid
          /\ steps' = IF raises THEN steps ELSE 0
          /\ it' = IF raises THEN it ELSE 0
          /\ stylized' = IF raises THEN stylized ELSE Folded(pyramid, 0)
          /\ count' = IF raises THEN count
                      ELSE [count EXCEPT !.optimize_calls = @ + 1,
                                         !.folds = @ + 1,
                                         !.extracts = @ + 1 + StyleDraws]
    /\ UNCHANGED <<entry, resize_to, content_pil, scales, si>>
    /\ UNCHANGED <<pyrVars, sampleVars>>

\* LoopContinues with the last round dropped
LoopContinuesShort(i) == i < opt_iter - 1

\* `for it in range(opt_iter)`: whether the body runs once more
LoopContinues(i) == i < opt_iter

\* what the fold at the head of an iteration reflects: every step so far
FoldReflects(n) == n

\* one iteration of optimize, lines 394-407
Iterate ==
    /\ pc = "iterating"
    /\ LoopContinues(it)
    /\ stylized' = Folded(result_pyramid, FoldReflects(steps))
    /\ steps' = steps + 1
    /\ it' = it + 1
    /\ count' = [count EXCEPT !.folds = @ + 1, !.extracts = @ + 1,
                              !.losses = @ + 1, !.updates = @ + 1]
    /\ UNCHANGED <<pc, entry, resize_to, content_pil, scales, si, lr, result,
                   result_pyramid>>
    /\ UNCHANGED <<pyrVars, sampleVars>>

\* OptimizeReturn with the pyramid folded once more after the loop
OptimizeReturnRefolded == [stylized EXCEPT !.reflects = steps]

\* line 408: what optimize returns
OptimizeReturn == stylized

\* the end of optimize and of the round of strotss: lines 408, 445-448
Return ==
    /\ pc = "iterating"
    /\ ~LoopContinues(it)
    /\ result' = Image(OptimizeReturn, result.terms, OptimizeReturn.reflects)
    /\ si' = si + 1
    /\ pc' = "scale"
    /\ UNCHANGED <<entry, resize_to, content_pil, scales, lr, it,
                   result_pyramid, steps, stylized, count>>
    /\ UNCHANGED <<pyrVars, sampleVars>>

\* the end of `for scale in scales`
LeaveScales ==
    /\ pc = "scale"
    /\ si > Len(scales)
    /\ pc' = "finalize"
    /\ UNCHANGED <<entry, resize_to, content_pil, scales, si, lr, result, it,
                   result_pyramid, steps, stylized, count>>
    /\ UNCHANGED <<pyrVars, sampleVars>>

\* lines 450-457: clamp, resample to the full size, renormalise; reading
\* `result` before any assignment raises UnboundLocalError
Finalize ==
    /\ pc = "finalize"
    /\ IF result.bound
       THEN /\ pc' = "done"
            /\ result' = [result EXCEPT !.h = content_full.h, !.w = content_full.w]
       ELSE /\ pc' = "error"
            /\ UNCHANGED result
    /\ UNCHANGED <<entry, resize_to, content_pil, scales, si, lr, it,
                   result_pyramid, steps, stylized, count>>
    /\ UNCHANGED <<pyrVars, sampleVars>>

RunNext ==
    \/ Main
    \/ ExecuteStyleTransfer
    \/ StrotssPlan
    \/ BeginScale
    \/ Iterate
    \/ Return
    \/ LeaveScales
    \/ Finalize

----------------------------------------------------------------------------
(* The pyramid codec on its own: make_laplace_pyramid, then                *)
(* fold_laplace_pyramid of what it returned                                *)

\* Largest side of the images decomposed, and largest level count.
MaxDim == 6
MaxLevels == 3

PyrInit ==
    /\ ppc = "input"
    /\ image \in {Shape(h, w) : h \in 1..MaxDim, w \in 1..MaxDim}
    /\ lap_levels \in 1..MaxLevels
    /\ lap_pyramid = Raised
    /\ folded = Failed

\* make_laplace_pyramid(image, lap_levels)
Decompose ==
    /\ ppc = "input"
    /\ lap_pyramid' = make_laplace_pyramid(image, lap_levels)
    /\ ppc' = IF lap_pyramid' = Raised THEN "raised" ELSE "made"
    /\ UNCHANGED <<image, lap_levels, folded>>
    /\ UNCHANGED <<runVars, sampleVars>>

\* fold_laplace_pyramid(lap_pyramid)
Reconstruct ==
    /\ ppc = "made"
    /\ folded' = fold_laplace_pyramid(lap_pyramid)
    /\ ppc' = "folded"
    /\ UNCHANGED <<image, lap_levels, lap_pyramid>>
    /\ UNCHANGED <<runVars, sampleVars>>

PyrNext ==
    \/ Decompose
    \/ Reconstruct

----------------------------------------------------------------------------
(* The spatial sampler: sample_indices *)

const == 128 ^ 2

\* math.floor(math.sqrt(n)) and math.ceil(math.sqrt(n)) of a whole number
FloorSqrt(n) == CHOOSE r \in 0..n : r * r <= n /\ (r + 1) * (r + 1) > n

CeilSqrt(n) == CHOOSE r \in 0..n : r * r >= n /\ (r = 0 \/ (r - 1) * (r - 1) < n)

\* lines 164-168: the strides for a grid of feat_content.shape[2] = h rows
\* and feat_content.shape[3] = w columns
StrideX(grid) == Max(FloorSqrt((grid.h * grid.w) \div const), 1)

StrideY(grid) == Max(CeilSqrt((grid.h * grid.w) \div const), 1)

\* np.arange(n)[offset::stride], taken from position 0 whatever the offset
ArangeSliceFromZero(n, offset, stride) ==
    LET picked == {v \in 0..(n - 1) : v % stride = 0}
    IN  [k \in 1..Cardinality(picked) |-> (k - 1) * stride]

\* np.arange(n)[offset::stride]: the values offset, offset + stride, ...
\* below n
ArangeSlice(n, offset, stride) ==
    LET picked == {v \in 0..(n - 1) : v >= offset /\ (v - offset) % stride = 0}
    IN  [k \in 1..Cardinality(picked) |-> offset + (k - 1) * stride]

\* np.meshgrid(a, b), flattened: both results have len(b) rows of len(a)
\* entries; the first repeats a along each row, the second holds b[i] all
\* along row i
MeshFlatX(a, b) ==
    LET la == Len(a)
        lb == Len(b)
    IN  [k \in 1..(la * lb) |-> a[((k - 1) % la) + 1]]

MeshFlatY(a, b) ==
    LET la == Len(a)
        lb == Len(b)
    IN  [k \in 1..(la * lb) |-> b[((k - 1) \div la) + 1]]

Range(s) == {s[k] : k \in 1..Len(s)}

\* sample_indices for the offsets drawn at lines 167 and 169
sample_indices(grid, offset_x, offset_y) ==
    LET a == ArangeSlice(grid.h, offset_x, StrideX(grid))
        b == ArangeSlice(grid.w, offset_y, StrideY(grid))
    IN  [xx |-> MeshFlatX(a, b), xy |-> MeshFlatY(a, b)]

NoDraw == [stride_x |-> 0, offset_x |-> 0, stride_y |-> 0, offset_y |-> 0]

NoGather == [layers |-> <<>>, xx |-> <<>>, yy |-> <<>>]

\* line 392 of optimize: the Sample Set is drawn from feat_content[0]
DrawSamples ==
    /\ spc = "init"
    /\ \E offset_x \in 0..(StrideX(feat[1]) - 1) :
         \E offset_y \in 0..(StrideY(feat[1]) - 1) :
           /\ draw' = [stride_x |-> StrideX(feat[1]), offset_x |-> offset_x,
                       stride_y |-> StrideY(feat[1]), offset_y |-> offset_y]
           /\ \E drawn \in {sample_indices(feat[1], offset_x, offset_y)} :
                xx' = drawn.xx /\ xy' = drawn.xy
    /\ spc' = "iter"
    /\ sit' = 0
    /\ UNCHANGED <<feat, gathered>>
    /\ UNCHANGED <<runVars, pyrVars>>

\* Grids of the sampler on its own: sides of 1, 2 and 3, and sides of
\* m * 128 and m * 128 + 1 for m up to MaxTiles, so that the grid area
\* divided by const passes 1, 2 and 4; and a strip one feaxel wide.
MaxTiles == 2

TileSides == (1..3) \cup {m * FloorSqrt(const) + d : m \in 1..MaxTiles, d \in {0, 1}}

SamplerGrids ==
    {Shape(h, w) : h \in TileSides, w \in TileSides}
        \cup {Shape(2 * const, 1)}

SamplerInit ==
    /\ spc = "init"
    /\ feat \in {<<g>> : g \in SamplerGrids}
    /\ draw = NoDraw
    /\ xx = <<>>
    /\ xy = <<>>
    /\ sit = 0
    /\ gathered = NoGather

SamplerNext == DrawSamples

----------------------------------------------------------------------------
(* The feature gatherer: spatial_feature_extract, as optimize calls it     *)

num_locations == 1024

\* A coordinate after `halvings` divisions by 2.0: the value num / den.
Coord(x, halvings) == [num |-> x, den |-> 2 ^ halvings]

\* np.floor of a coordinate
Floor(c) == c.num \div c.den

\* np.clip(v, lo, hi) with the upper limit left out
np_clip_lower(v, lo, hi) == Max(v, lo)

\* np.clip(v, lo, hi)
np_clip(v, lo, hi) == Min(Max(v, lo), hi)

RECURSIVE Halvings(_, _)
\* lines 188-190: how often the coordinates have been halved when layer i
\* (1-based) is sampled: once for each layer up to i that is less high than
\* the layer before it
Halvings(feat_result, i) ==
    IF i = 1 THEN 0
    ELSE Halvings(feat_result, i - 1)
            + (IF feat_result[i - 1].h > feat_result[i].h THEN 1 ELSE 0)

\* lines 193-211 for one sample at one layer: the coordinates used and the
\* four flattened neighbour indices
LayerSample(fr, cx, cy) ==
    LET xxm == np_clip(Floor(cx), 0, fr.h - 1)
        xym == np_clip(Floor(cy), 0, fr.w - 1)
    IN  [x |-> cx, y |-> cy,
         s00 |-> xxm * fr.w + xym,
         s01 |-> xxm * fr.w + np_clip(xym + 1, 0, fr.w - 1),
         s10 |-> np_clip(xxm + 1, 0, fr.h - 1) * fr.w + xym,
         s11 |-> np_clip(xxm + 1, 0, fr.h - 1) * fr.w + np_clip(xym + 1, 0, fr.w - 1)]

\* TrailingChannel with the coordinate as it was passed in
TrailingChannelFinest(x, feat_result) == Coord(x, 0)

\* lines 227-228: the coordinate appended as a trailing channel is the local
\* xx (xy) as the loop over the layers left it
TrailingChannel(x, feat_result) == Coord(x, Halvings(feat_result, Len(feat_result)))

\* spatial_feature_extract(feat_result, feat_content, xx, xy): per layer and
\* sample what is gathered, and the two trailing channels
spatial_feature_extract(feat_result, xs, ys) ==
    [layers |-> [i \in 1..Len(feat_result) |->
                    [k \in 1..Len(xs) |->
                        LayerSample(feat_result[i],
                                    Coord(xs[k], Halvings(feat_result, i)),
                                    Coord(ys[k], Halvings(feat_result, i)))]],
     xx |-> [k \in 1..Len(xs) |-> TrailingChannel(xs[k], feat_result)],
     yy |-> [k \in 1..Len(ys) |-> TrailingChannel(ys[k], feat_result)]]

\* Most samples of a grid, and most layers of the extractor, of the gatherer
\* on its own.
MaxSamples == 6
MaxLayers == 2

\* the permutations of the positions of an array of n entries
Orders == [n \in 0..MaxSamples |-> Permutations(1..n)]

\* indices[:num_locations]
Prefix(s, n) == SubSeq(s, 1, Min(Len(s), n))

\* np.random.shuffle(s): the orders s can be left in, one for each
\* permutation of its positions
np_random_shuffle(s) ==
    {[k \in 1..Len(s) |-> s[p[k]]] : p \in Orders[Len(s)]}

\* Rounds of the loop of optimize that the gatherer is followed through.
MaxRounds == 2

\* line 401, reached when `it != 0`; what the round before gathered was
\* local to its call of calculate_loss and is gone
ShuffleXX ==
    /\ spc = "iter"
    /\ sit # 0
    /\ sit < MaxRounds
    /\ xx' \in np_random_shuffle(xx)
    /\ gathered' = NoGather
    /\ spc' = "shuffle_xy"
    /\ UNCHANGED <<feat, draw, xy, sit>>
    /\ UNCHANGED <<runVars, pyrVars>>

\* line 402
ShuffleXY ==
    /\ spc = "shuffle_xy"
    /\ xy' \in np_random_shuffle(xy)
    /\ spc' = "loss"
    /\ UNCHANGED <<feat, draw, xx, sit, gathered>>
    /\ UNCHANGED <<runVars, pyrVars>>

\* lines 403-405: the features of the result, and calculate_loss up to its
\* call of spatial_feature_extract; at `it == 0` the shuffles are skipped
Gather ==
    /\ spc = IF sit = 0 THEN "iter" ELSE "loss"
    /\ sit < MaxRounds
    /\ gathered' = spatial_feature_extract(feat, Prefix(xx, num_locations),
                                           Prefix(xy, num_locations))
    /\ sit' = sit + 1
    /\ spc' = "iter"
    /\ UNCHANGED <<feat, draw, xx, xy>>
    /\ UNCHANGED <<runVars, pyrVars>>


\* Every side of a grid is at least 2: the extractor pools.
GatherGrids ==
    {g \in {Shape(h, w) : h \in 2..MaxSamples, w \in 2..MaxSamples} :
        g.h * g.w <= MaxSamples}

LayerShapes(side) == {Shape(h, w) : h \in 1..side, w \in 1..side}

\* what a pooling layer makes of a layer
Pooled(l) == Shape(l.h \div 2, l.w \div 2)

\* the layer lists of an extractor of up to `depth` size-keeping and pooling
\* layers, the first of them the grid; a layer with a side of 1 is not pooled
ExtractorLayers(grids, side, depth) ==
    UNION {{f \in [1..n -> LayerShapes(side)] :
              /\ f[1] \in grids
              /\ \A i \in 2..n : \/ f[i] = f[i - 1]
                                 \/ f[i] = Pooled(f[i - 1])} : n \in 1..depth}

LayerLists == ExtractorLayers(GatherGrids, MaxSamples \div 2, MaxLayers)

GatherInit ==
    /\ spc = "init"
    /\ feat \in LayerLists
    /\ draw = NoDraw
    /\ xx = <<>>
    /\ xy = <<>>
    /\ sit = 0
    /\ gathered = NoGather

GatherNext ==
    \/ DrawSamples
    \/ ShuffleXX
    \/ ShuffleXY
    \/ Gather

\* The gatherer at the first round of the loop, where nothing is shuffled
\* yet: largest side of a grid, and most layers of the extractor.
MaxGrid == 4
MaxDepth == 3

ExtractGrids == {Shape(h, w) : h \in 2..MaxGrid, w \in 2..MaxGrid}

ExtractInit ==
    /\ spc = "init"
    /\ feat \in ExtractorLayers(ExtractGrids, MaxGrid, MaxDepth)
    /\ draw = NoDraw
    /\ xx = <<>>
    /\ xy = <<>>
    /\ sit = 0
    /\ gathered = NoGather

FirstRound ==
    /\ sit = 0
    /\ Gather

ExtractNext ==
    \/ DrawSamples
    \/ FirstRound

----------------------------------------------------------------------------
(* Specifications *)

RunIdle ==
    /\ pc = "idle"
    /\ entry = "none"
    /\ resize_to = 0
    /\ content_pil = [width |-> 0, height |-> 0]
    /\ scales = <<>>
    /\ si = 0
    /\ lr = 0
    /\ result = Unbound
    /\ it = 0
    /\ result_pyramid = <<>>
    /\ steps = 0
    /\ stylized = [h |-> 0, w |-> 0, reflects |-> 0]
    /\ count = NoCount

PyrIdle ==
    /\ ppc = "idle"
    /\ image = Failed
    /\ lap_levels = 0
    /\ lap_pyramid = Raised
    /\ folded = Failed

SampleIdle ==
    /\ spc = "idle"
    /\ feat = <<>>
    /\ draw = NoDraw
    /\ xx = <<>>
    /\ xy = <<>>
    /\ sit = 0
    /\ gathered = NoGather

\* a run from an entry point to its end
Init == RunInit /\ PyrIdle /\ SampleIdle

Next == RunNext

Spec == Init /\ [][Next]_vars

\* a single thread of control: a step that can be taken is taken
FairSpec == Spec /\ WF_vars(Next)

\* the pyramid codec applied to an image
PyramidInit == PyrInit /\ RunIdle /\ SampleIdle

PyramidSpec == PyramidInit /\ [][PyrNext]_vars

\* sample_indices applied to a grid
SamplerStart == SamplerInit /\ RunIdle /\ PyrIdle

SamplerSpec == SamplerStart /\ [][SamplerNext]_vars

\* the Sample Set through the rounds of optimize
GatherStart == GatherInit /\ RunIdle /\ PyrIdle

GatherSpec == GatherStart /\ [][GatherNext]_vars

\* spatial_feature_extract on the Sample Set as drawn
ExtractStart == ExtractInit /\ RunIdle /\ PyrIdle

ExtractSpec == ExtractStart /\ [][ExtractNext]_vars

----------------------------------------------------------------------------
(* Claims about the run *)

ShortSide == Min(content_pil.width, content_pil.height)

Planned == pc \in {"scale", "iterating", "finalize", "done", "error"}

\* C1: once strotss has built the scale plan for a content image of shorter
\* side S >= 1, every divisor d of the plan has S // d >= 33, the divisors
\* decrease strictly from first to last, and the plan is not empty and ends
\* with the factor 1.
C1_ScalePlan ==
    Planned =>
        /\ \A i \in 1..Len(scales) : ShortSide \div scales[i] >= MinShort
        /\ \A i \in 1..Len(scales) : \A j \in 1..Len(scales) :
              i < j => scales[i] > scales[j]
        /\ Len(scales) >= 1
        /\ scales[Len(scales)] = 1

\* C5: on either entry path, a run whose resize target is below the minimum
\* of 256 never schedules a scale, never calls optimize, never evaluates the
\* extractor and never completes with an image.
C5_MinimumResize ==
    TooLow(resize_to) =>
        /\ scales = <<>>
        /\ count = NoCount
        /\ pc # "done"

FirstTerms == {"laplacian_content", "style_mean"}
LastTerms == {"upsampled_result"}
MiddleTerms == {"upsampled_result", "laplacian_content"}

\* C6 as stated: while a scale is optimized, the finest scale (factor 1),
\* also the only scale of a one-scale plan, started from the upsampled
\* previous result alone and runs with learning rate 1e-3; a coarsest scale
\* that is not the finest started from laplacian(content) + style mean; every
\* scale between them started from the upsampled result plus
\* laplacian(content).
C6_AsStated ==
    pc = "iterating" =>
        IF scales[si] = 1 THEN result.terms = LastTerms /\ lr = 1
        ELSE IF si = 1 THEN result.terms = FirstTerms /\ lr = 2
        ELSE result.terms = MiddleTerms /\ lr = 2

\* C6 amended: while a scale is optimized, the first (coarsest) scale of the
\* plan, which is also the finest in a one-scale plan, started from
\* laplacian(content) + style mean with learning rate 2e-3; the last scale of
\* a plan of two or more scales started from the upsampled previous result
\* alone, with learning rate 1e-3; every scale between them started from the
\* upsampled result plus laplacian(content), with learning rate 2e-3.
C6_InitPerScale ==
    pc = "iterating" =>
        IF si = 1 THEN result.terms = FirstTerms /\ lr = 2
        ELSE IF si = Len(scales) THEN result.terms = LastTerms /\ lr = 1
        ELSE result.terms = MiddleTerms /\ lr = 2

\* the finest scale of a plan of three scales has been optimized to its end
C6_Witness ==
    /\ pc = "iterating"
    /\ Len(scales) = 3
    /\ si = 3
    /\ it = opt_iter
    /\ result.terms = LastTerms

C10_ReturnedImage ==
    /\ (pc \in {"scale", "finalize", "done"} /\ si > 1) =>
          /\ steps = opt_iter
          /\ result.reflects = opt_iter - 1
    /\ (pc = "iterating" /\ si > 1) => result.reflects = opt_iter - 1

\* a run of two scales or more is done
C10_Witness ==
    /\ pc = "done"
    /\ Len(scales) >= 2
    /\ steps = opt_iter
    /\ result.reflects = opt_iter - 1

----------------------------------------------------------------------------
(* Claims about the pyramid codec *)

\* a side floor-halved i times, never below 1
HalvedTimes(side, i) == Max(side \div (2 ^ i), 1)

\* C4: for every image with sides >= 1 and every level count >= 1,
\* make_laplace_pyramid does not raise; it returns levels + 1 bands, band i
\* (from 0) of the image's shape floor-halved i times with least side 1; and
\* fold_laplace_pyramid of these bands has the shape of the image.  (That the
\* values agree within the interpolation tolerance is not stated here: the
\* model holds shapes.)
C4_RoundTrip ==
    /\ ppc # "raised"
    /\ ppc \in {"made", "folded"} =>
          /\ Len(lap_pyramid) = lap_levels + 1
          /\ \A i \in 1..Len(lap_pyramid) :
                lap_pyramid[i] = Shape(HalvedTimes(image.h, i - 1),
                                       HalvedTimes(image.w, i - 1))
    /\ ppc = "folded" => folded = image

----------------------------------------------------------------------------
(* Claims about the sampler *)

CeilDiv(a, b) == (a + b - 1) \div b

Drawn == spc = "iter" /\ draw # NoDraw

\* C2 as stated: for every grid and every offset drawn in [0, stride) on each
\* axis, sample_indices returns two arrays of equal length
\* ceil(n_x / stride_x) * ceil(n_y / stride_y), n_x and n_y the extents of
\* the axes that stride_x and stride_y step through, and every coordinate
\* lies inside the grid on its axis.
C2_AsStated ==
    Drawn =>
        /\ Len(xx) = Len(xy)
        /\ Len(xx) = CeilDiv(feat[1].h, draw.stride_x) * CeilDiv(feat[1].w, draw.stride_y)
        /\ \A v \in Range(xx) : v >= 0 /\ v <= feat[1].h - 1
        /\ \A v \in Range(xy) : v >= 0 /\ v <= feat[1].w - 1

\* C2 amended: the two arrays have the equal length
\* ceil((n_x - offset_x) / stride_x) * ceil((n_y - offset_y) / stride_y),
\* which is the stated count when both offsets are 0 and can be less
\* otherwise (down to 0 for an axis of extent 1 with offset 1); and every
\* coordinate lies inside the grid on its axis.
C2_SampleCount ==
    Drawn =>
        /\ Len(xx) = Len(xy)
        /\ Len(xx) = CeilDiv(feat[1].h - draw.offset_x, draw.stride_x)
                        * CeilDiv(feat[1].w - draw.offset_y, draw.stride_y)
        /\ (draw.offset_x = 0 /\ draw.offset_y = 0) =>
              Len(xx) = CeilDiv(feat[1].h, draw.stride_x)
                            * CeilDiv(feat[1].w, draw.stride_y)
        /\ \A v \in Range(xx) : v >= 0 /\ v <= feat[1].h - 1
        /\ \A v \in Range(xy) : v >= 0 /\ v <= feat[1].w - 1

\* a Sample Set drawn with stride 2 and offset 1 on both axes
C2_Witness ==
    /\ Drawn
    /\ draw.stride_x = 2
    /\ draw.stride_y = 2
    /\ draw.offset_x = 1
    /\ draw.offset_y = 1
    /\ Len(xx) > 0

----------------------------------------------------------------------------
(* Claims about the Sample Set and the gatherer *)

Pairs(a, b) == {<<a[k], b[k]>> : k \in 1..Len(a)}

PairCount(a, b, p) == Cardinality({k \in 1..Len(a) : <<a[k], b[k]>> = p})

\* the Sample Set as line 392 drew it
DrawnSet == sample_indices(feat[1], draw.offset_x, draw.offset_y)

\* C3: between the rounds of the loop of optimize, and when the loss is
\* computed, the coordinate pairs (xx[k], xy[k]) are, counted with
\* multiplicity, the pairs drawn at line 392; and the first round computes
\* its loss on the Sample Set as drawn, nothing being shuffled before the
\* second round.
C3_SampleSetPairs ==
    (spc \in {"iter", "loss"} /\ draw # NoDraw) =>
        /\ Len(xx) = Len(DrawnSet.xx)
        /\ Len(xy) = Len(DrawnSet.xy)
        /\ \A p \in Pairs(xx, xy) \cup Pairs(DrawnSet.xx, DrawnSet.xy) :
              PairCount(xx, xy, p) = PairCount(DrawnSet.xx, DrawnSet.xy, p)
        /\ (sit = 0 \/ (sit = 1 /\ spc = "iter")) =>
              (xx = DrawnSet.xx /\ xy = DrawnSet.xy)

HasGathered == spc = "iter" /\ sit >= 1

\* the pooling boundaries of the extractor's layers
Boundaries(layers) == {i \in 2..Len(layers) : layers[i].h < layers[i - 1].h}

\* C7 as stated: with at least one pooling boundary among the layers, the
\* two trailing channels hold the coordinates as they were passed in.
C7_AsStated ==
    (HasGathered /\ Boundaries(feat) # {}) =>
        \A k \in 1..Len(gathered.xx) :
            /\ gathered.xx[k].num = xx[k] * gathered.xx[k].den
            /\ gathered.yy[k].num = xy[k] * gathered.yy[k].den

\* C7 amended: the two trailing channels hold the coordinates passed in
\* divided by 2 once for each pooling boundary among the layers, that is in
\* the units of the deepest layer.
C7_TrailingChannels ==
    HasGathered =>
        /\ Len(gathered.xx) = Len(xx)
        /\ Len(gathered.yy) = Len(xy)
        /\ \A k \in 1..Len(gathered.xx) :
              /\ gathered.xx[k] = [num |-> xx[k], den |-> 2 ^ Cardinality(Boundaries(feat))]
              /\ gathered.yy[k] = [num |-> xy[k], den |-> 2 ^ Cardinality(Boundaries(feat))]

\* gathered through two pooling boundaries: a row coordinate 3 comes out
\* as 3 / 4
C7_Witness ==
    /\ HasGathered
    /\ Cardinality(Boundaries(feat)) = 2
    /\ \E k \in 1..Len(gathered.xx) :
          xx[k] = 3 /\ gathered.xx[k] = [num |-> 3, den |-> 4]

\* the index of row r, column c of layer fr after clamping both to the layer
ClampedIndex(fr, r, c) ==
    (IF r < 0 THEN 0 ELSE IF r > fr.h - 1 THEN fr.h - 1 ELSE r) * fr.w
        + (IF c < 0 THEN 0 ELSE IF c > fr.w - 1 THEN fr.w - 1 ELSE c)

\* C8: for every layer and every sample gathered, before or after a
\* reshuffle, each of s00, s01, s10, s11 lies in [0, height * width - 1] of
\* the layer and is the flattened index of the neighbour (floor x, floor y),
\* (floor x, floor y + 1), (floor x + 1, floor y), (floor x + 1, floor y + 1)
\* with its row clamped to [0, height - 1] and its column to [0, width - 1].
C8_EdgeClamp ==
    HasGathered =>
        \A i \in 1..Len(feat) : \A k \in 1..Len(gathered.layers[i]) :
            LET g == gathered.layers[i][k]
                r == g.x.num \div g.x.den
                c == g.y.num \div g.y.den
            IN  /\ {g.s00, g.s01, g.s10, g.s11} \subseteq 0..(feat[i].h * feat[i].w - 1)
                /\ g.s00 = ClampedIndex(feat[i], r, c)
                /\ g.s01 = ClampedIndex(feat[i], r, c + 1)
                /\ g.s10 = ClampedIndex(feat[i], r + 1, c)
                /\ g.s11 = ClampedIndex(feat[i], r + 1, c + 1)

\* after a reshuffle, a sample of row 2 is gathered from a layer of height 1
\* that pooling made of a layer of height 3: its halved row 1 is clamped to 0
C8_Witness ==
    /\ HasGathered
    /\ sit = 2
    /\ \E i \in 2..Len(feat) :
          /\ feat[i - 1].h = 3
          /\ feat[i].h = 1
          /\ \E k \in 1..Len(gathered.layers[i]) :
                /\ gathered.layers[i][k].x = [num |-> 2, den |-> 2]
                /\ gathered.layers[i][k].s00 < feat[i].w

=============================================================================
